---- MODULE Spec2Model ----
(***************************************************************************)
(* Model of the marketplace report service (app/main.py, app/api/*.py,     *)
(* app/data_processor/*.py).                                               *)
(*                                                                         *)
(* Two specifications share the module:                                    *)
(*   SpecClient  one call of one marketplace client operation (app/api):   *)
(*               its HTTP requests, the upstream's answers, its result.    *)
(*   Spec        one run of download_report: the three aggregator stages,  *)
(*               each a sequence of asyncio.gather fan-outs over the       *)
(*               configured accounts, the joins, the export.               *)
(* All cell values are integers so that rows of different tables compare.  *)
(***************************************************************************)
EXTENDS Integers, Sequences, FiniteSets, TLC

VARIABLES
    \* ---- one client call (app/api) ----
    op,          \* the client operation called (the shaper, under SpecShaper)
    args,        \* its arguments (the raw records and label a shaper works on)
    cursor,      \* loop variable: chunk offset i, current_since, or page_token
    requests,    \* the HTTP requests issued so far, in order
    responses,   \* the upstream's answer to each request
    results,     \* the accumulating list (per recursion frame for Yandex)
    ret,         \* [status, value]: pending, returned a list or table, or raised
    \* ---- one run of download_report (app/main.py) ----
    conf,            \* the number of configured accounts of each marketplace
    pc,              \* the gather the run awaits ("start", "done", "idle")
    fetch,           \* per gather and account: idle, running, or how it ended
    order,           \* the accounts of the awaited gather in completion order
    gathered,        \* the gathers that have returned
    concat,          \* per gather: pd.concat of its results
    additional_data, \* what get_additional_data returned
    orders_data,     \* the three order tables of get_orders
    stocks_data,     \* the three stock tables of get_stocks
    sheets,          \* the sheets written to the workbook, in order
    response,        \* pending, the workbook, or the error text
    error            \* the exception that escaped generate_excel_file

clientVars == <<op, args, cursor, requests, responses, results, ret>>

pipeVars == <<conf, pc, fetch, order, gathered, concat, additional_data,
              orders_data, stocks_data, sheets, response, error>>

vars == <<op, args, cursor, requests, responses, results, ret,
          conf, pc, fetch, order, gathered, concat, additional_data,
          orders_data, stocks_data, sheets, response, error>>

(***************************************************************************)
(* Bounds of the model.                                                    *)
(***************************************************************************)
MaxRecs == 1        \* records in one successful response: 0..MaxRecs
MaxSkus == 201      \* length of the SKU list handed to the stock fetch
TicksPerDay == 2    \* resolution of time: ticks in timedelta(days=1)
MaxTime == 5        \* since and to range over 0..MaxTime ticks
MaxPages == 3       \* the upstream has at most this many pages

chunk_size == 100

(***************************************************************************)
(* Helpers.                                                                *)
(***************************************************************************)
Min(a, b) == IF a <= b THEN a ELSE b

CeilDiv(a, b) == (a + b - 1) \div b

RECURSIVE Flatten(_)
Flatten(ss) == IF ss = <<>> THEN <<>> ELSE Head(ss) \o Flatten(Tail(ss))

\* Python's s[lo:hi] on a list, 0-based, hi exclusive and clipped to len(s)
Slice(s, lo, hi) == SubSeq(s, lo + 1, Min(hi, Len(s)))

(***************************************************************************)
(* The upstream: what one HTTP call can end in.                            *)
(*   ok             status 200, body decodes to the expected shape         *)
(*   http_429       status 429                                             *)
(*   http_error     another non-200 status, body is JSON                   *)
(*   http_nobody    another non-200 status, body is not JSON               *)
(*   client_error   aiohttp.ClientError raised by the call                 *)
(*   exception      any other exception raised inside the try block        *)
(***************************************************************************)
NoToken == "None"

Tokens == {"tA", "tB"}

FailKinds == {"http_429", "http_error", "http_nobody", "client_error", "exception"}

Failure(kind) == [kind |-> kind, n |-> 0, next |-> NoToken]

\* answers of an endpoint without cursor
PlainAnswers ==
    {[kind |-> "ok", n |-> n, next |-> NoToken] : n \in 0..MaxRecs}
        \cup {Failure(k) : k \in FailKinds}

\* answers of a cursor-paginated endpoint; the last page carries no token
PagedAnswers(page) ==
    {[kind |-> "ok", n |-> n, next |-> t] :
        n \in 0..MaxRecs,
        t \in (IF page < MaxPages THEN Tokens ELSE {}) \cup {NoToken}}
        \cup {Failure(k) : k \in FailKinds}

\* the records of the j-th answer: <<>> unless it is a 200
Records(j, answer) ==
    IF answer.kind = "ok" THEN [k \in 1..answer.n |-> [req |-> j, k |-> k]] ELSE <<>>

(***************************************************************************)
(* Exceptions inside a client's try block, and its except clauses.         *)
(***************************************************************************)
Ops == {"get_wb_orders", "get_wb_stocks",
        "get_ozon_product_info_attributes", "get_ozon_analytics_stocks",
        "get_ozon_posting_fbo_list", "get_ozon_posting_fbs_list",
        "get_yandex_offers_stocks", "get_yandex_orders",
        "get_yandex_offer_mappings", "get_yandex_warehouses"}

WbOps == {"get_wb_orders", "get_wb_stocks"}

PagedOps == {"get_yandex_offers_stocks", "get_yandex_orders", "get_yandex_offer_mappings"}

SingleOps == WbOps \cup {"get_ozon_product_info_attributes",
                         "get_ozon_posting_fbs_list", "get_yandex_warehouses"}

\* The exception the try body raises on this answer ("none": it raises nothing).
\* WB and the paginated Yandex fetches decode the error body with
\* response.json(), which raises on a body that is not JSON; the others read
\* response.text() or only the status.
Thrown(o, answer) ==
    CASE answer.kind = "client_error" -> "ClientError"
      [] answer.kind = "exception" -> "Exception"
      [] answer.kind = "http_nobody" /\ o \in WbOps \cup PagedOps -> "ClientError"
      [] OTHER -> "none"

\* mutant: only `except aiohttp.ClientError`, the generic clause forgotten
HandlersClientErrorOnly(o) == {"ClientError"}

\* the except clauses of the operation
Handlers(o) ==
    IF o \in WbOps \cup PagedOps THEN {"ClientError", "Exception"} ELSE {"Exception"}

\* aiohttp.ClientError derives from Exception
Caught(o, exc) == exc \in Handlers(o) \/ "Exception" \in Handlers(o)

Pending == [status |-> "pending", value |-> <<>>]

Returned(list) == [status |-> "returned", value |-> list]

Raised == [status |-> "raised", value |-> <<>>]

NoArgs == [api_key_is_str |-> TRUE, flag |-> 0, skus |-> <<>>, since |-> 0, to |-> 0]

SkuList(len) == [k \in 1..len |-> 1000 + k]

(***************************************************************************)
(* Single-request operations.                                              *)
(***************************************************************************)
\* one request, one answer, one return: what the caller gets
SingleResult(o, answer) ==
    LET exc == Thrown(o, answer) IN
    IF exc # "none"
    THEN IF Caught(o, exc) THEN Returned(<<>>) ELSE Raised
    ELSE IF answer.kind = "ok" THEN Returned(Records(1, answer)) ELSE Returned(<<>>)

SingleCall(o, request) ==
    \E answer \in PlainAnswers :
        /\ requests' = <<request>>
        /\ responses' = <<answer>>
        /\ ret' = SingleResult(o, answer)
        /\ UNCHANGED <<op, args, cursor, results>>

ReturnEmptyWithoutRequest ==
    /\ ret' = Returned(<<>>)
    /\ UNCHANGED <<op, args, cursor, requests, responses, results>>

get_wb_orders ==
    /\ UNCHANGED pipeVars
    /\ op = "get_wb_orders" /\ ret.status = "pending"
    /\ IF ~args.api_key_is_str \/ args.flag \notin {0, 1}
       THEN ReturnEmptyWithoutRequest
       ELSE SingleCall(op, [flag |-> args.flag])

get_wb_stocks ==
    /\ UNCHANGED pipeVars
    /\ op = "get_wb_stocks" /\ ret.status = "pending"
    /\ IF ~args.api_key_is_str
       THEN ReturnEmptyWithoutRequest
       ELSE SingleCall(op, [flag |-> 0])

get_ozon_product_info_attributes ==
    /\ UNCHANGED pipeVars
    /\ op = "get_ozon_product_info_attributes" /\ ret.status = "pending"
    /\ SingleCall(op, [limit |-> 1000])

get_ozon_posting_fbs_list ==
    /\ UNCHANGED pipeVars
    /\ op = "get_ozon_posting_fbs_list" /\ ret.status = "pending"
    /\ SingleCall(op, [limit |-> 1000])

get_yandex_warehouses ==
    /\ UNCHANGED pipeVars
    /\ op = "get_yandex_warehouses" /\ ret.status = "pending"
    /\ SingleCall(op, [limit |-> 0])

(***************************************************************************)
(* Loops: one iteration per action, the upstream answering in between.     *)
(***************************************************************************)
\* the body of one loop iteration: try / status check / extend / except
LoopStep(o, request, next_cursor) ==
    \E answer \in PlainAnswers :
        LET exc == Thrown(o, answer) IN
        /\ requests' = Append(requests, request)
        /\ responses' = Append(responses, answer)
        /\ IF exc # "none" /\ ~Caught(o, exc)
           THEN ret' = Raised /\ UNCHANGED <<results, cursor>>
           ELSE /\ results' = results \o Records(Len(requests) + 1, answer)
                /\ cursor' = next_cursor
                /\ UNCHANGED ret
        /\ UNCHANGED <<op, args>>

\* mutant: a failed batch ends the loop (a `return results` in the error paths)
get_ozon_analytics_stocks_chunk_stop_on_failure ==
    /\ UNCHANGED pipeVars
    /\ op = "get_ozon_analytics_stocks" /\ ret.status = "pending"
    /\ args.skus # <<>>
    /\ cursor < Len(args.skus)
    /\ \E answer \in PlainAnswers :
        /\ requests' = Append(requests,
                              [skus |-> Slice(args.skus, cursor, cursor + chunk_size)])
        /\ responses' = Append(responses, answer)
        /\ results' = results \o Records(Len(requests) + 1, answer)
        /\ cursor' = IF answer.kind = "ok" THEN cursor + chunk_size ELSE Len(args.skus)
        /\ UNCHANGED <<op, args, ret>>

\* for i in range(0, len(skus), chunk_size): chunk = skus[i:i + chunk_size]
get_ozon_analytics_stocks_chunk ==
    /\ UNCHANGED pipeVars
    /\ op = "get_ozon_analytics_stocks" /\ ret.status = "pending"
    /\ args.skus # <<>>
    /\ cursor < Len(args.skus)
    /\ LoopStep(op, [skus |-> Slice(args.skus, cursor, cursor + chunk_size)],
                cursor + chunk_size)

\* if not skus: return [] ... return results
get_ozon_analytics_stocks_return ==
    /\ UNCHANGED pipeVars
    /\ op = "get_ozon_analytics_stocks" /\ ret.status = "pending"
    /\ args.skus = <<>> \/ cursor >= Len(args.skus)
    /\ ret' = Returned(IF args.skus = <<>> THEN <<>> ELSE results)
    /\ UNCHANGED <<op, args, cursor, requests, responses, results>>

\* mutant: chunk_to = next_day, the min() with end_date forgotten
get_ozon_posting_fbo_list_window_no_min ==
    /\ UNCHANGED pipeVars
    /\ op = "get_ozon_posting_fbo_list" /\ ret.status = "pending"
    /\ cursor < args.to
    /\ LoopStep(op, [since |-> cursor, to |-> cursor + TicksPerDay],
                cursor + TicksPerDay)

\* while current_since < end_date: next_day = current_since + 1 day;
\* chunk_to = min(next_day, end_date); ...; current_since = next_day
get_ozon_posting_fbo_list_window ==
    /\ UNCHANGED pipeVars
    /\ op = "get_ozon_posting_fbo_list" /\ ret.status = "pending"
    /\ cursor < args.to
    /\ LoopStep(op, [since |-> cursor, to |-> Min(cursor + TicksPerDay, args.to)],
                cursor + TicksPerDay)

get_ozon_posting_fbo_list_return ==
    /\ UNCHANGED pipeVars
    /\ op = "get_ozon_posting_fbo_list" /\ ret.status = "pending"
    /\ cursor >= args.to
    /\ ret' = Returned(results)
    /\ UNCHANGED <<op, args, cursor, requests, responses, results>>

(***************************************************************************)
(* Cursor pagination by recursion: one frame per page.  results holds the  *)
(* `result` list of every frame entered so far; when the innermost frame   *)
(* does not recurse, every frame returns and extends its caller's list.    *)
(***************************************************************************)
\* if next_page_token: (a Python truth test: None and "" are both false)
HasNextPage(token) == token # NoToken /\ token # ""

\* mutant: each frame puts the deeper pages before its own records
UnwindDeepestFirst(frames) ==
    Flatten([j \in 1..Len(frames) |-> frames[Len(frames) + 1 - j]])

\* the value the outermost frame returns once the frames unwind
Unwind(frames) == Flatten(frames)

\* mutant: a failed page discards the pages fetched before it
PagedFetchFailureEmptiesAll(o) ==
    \E answer \in PagedAnswers(Len(requests) + 1) :
        LET exc == Thrown(o, answer)
            frame == IF exc = "none" THEN Records(Len(requests) + 1, answer) ELSE <<>>
        IN
        /\ requests' = Append(requests, [page_token |-> cursor])
        /\ responses' = Append(responses, answer)
        /\ results' = Append(results, frame)
        /\ IF exc # "none" /\ ~Caught(o, exc)
           THEN ret' = Raised /\ UNCHANGED cursor
           ELSE IF exc = "none" /\ answer.kind = "ok" /\ HasNextPage(answer.next)
                THEN cursor' = answer.next /\ UNCHANGED ret
                ELSE /\ ret' = Returned(IF answer.kind = "ok" THEN Unwind(results') ELSE <<>>)
                     /\ UNCHANGED cursor
        /\ UNCHANGED <<op, args>>

PagedFetch(o) ==
    \E answer \in PagedAnswers(Len(requests) + 1) :
        LET exc == Thrown(o, answer)
            frame == IF exc = "none" THEN Records(Len(requests) + 1, answer) ELSE <<>>
        IN
        /\ requests' = Append(requests, [page_token |-> cursor])
        /\ responses' = Append(responses, answer)
        /\ results' = Append(results, frame)
        /\ IF exc # "none" /\ ~Caught(o, exc)
           THEN ret' = Raised /\ UNCHANGED cursor
           ELSE IF exc = "none" /\ answer.kind = "ok" /\ HasNextPage(answer.next)
                THEN cursor' = answer.next /\ UNCHANGED ret
                ELSE ret' = Returned(Unwind(results')) /\ UNCHANGED cursor
        /\ UNCHANGED <<op, args>>

get_yandex_offers_stocks ==
    /\ UNCHANGED pipeVars
    /\ op = "get_yandex_offers_stocks" /\ ret.status = "pending"
    /\ PagedFetch(op)

get_yandex_orders ==
    /\ UNCHANGED pipeVars
    /\ op = "get_yandex_orders" /\ ret.status = "pending"
    /\ PagedFetch(op)

get_yandex_offer_mappings ==
    /\ UNCHANGED pipeVars
    /\ op = "get_yandex_offer_mappings" /\ ret.status = "pending"
    /\ PagedFetch(op)

(***************************************************************************)
(* SpecClient: one call of one client operation with its arguments.        *)
(***************************************************************************)
ClientArgs(o) ==
    CASE o = "get_wb_orders" ->
            {[NoArgs EXCEPT !.api_key_is_str = b, !.flag = f] : b \in BOOLEAN, f \in 0..2}
      [] o = "get_wb_stocks" ->
            {[NoArgs EXCEPT !.api_key_is_str = b] : b \in BOOLEAN}
      [] o = "get_ozon_analytics_stocks" ->
            {[NoArgs EXCEPT !.skus = SkuList(len)] : len \in 0..MaxSkus}
      [] o = "get_ozon_posting_fbo_list" ->
            {[NoArgs EXCEPT !.since = s, !.to = t] : s \in 0..MaxTime, t \in 0..MaxTime}
      [] OTHER -> {NoArgs}

InitClient ==
    /\ op \in Ops
    /\ args \in ClientArgs(op)
    /\ cursor = CASE op = "get_ozon_posting_fbo_list" -> args.since
                  [] op \in PagedOps -> NoToken
                  [] OTHER -> 0
    /\ requests = <<>>
    /\ responses = <<>>
    /\ results = <<>>
    /\ ret = Pending
    /\ conf = [m \in {"wb", "ozon", "yandex"} |-> 0]
    /\ pc = "idle"
    /\ fetch = <<>>
    /\ order = <<>>
    /\ gathered = {}
    /\ concat = <<>>
    /\ additional_data = <<>>
    /\ orders_data = <<>>
    /\ stocks_data = <<>>
    /\ sheets = <<>>
    /\ response = "pending"
    /\ error = "none"

NextClient ==
    \/ get_wb_orders
    \/ get_wb_stocks
    \/ get_ozon_product_info_attributes
    \/ get_ozon_analytics_stocks_chunk
    \/ get_ozon_analytics_stocks_return
    \/ get_ozon_posting_fbo_list_window
    \/ get_ozon_posting_fbo_list_return
    \/ get_ozon_posting_fbs_list
    \/ get_yandex_offers_stocks
    \/ get_yandex_orders
    \/ get_yandex_offer_mappings
    \/ get_yandex_warehouses

SpecClient == InitClient /\ [][NextClient]_vars

(***************************************************************************)
(* Tables (pandas DataFrames): a set of column names and a list of rows,   *)
(* each row a function from the columns to cell values.                    *)
(***************************************************************************)
Null == -1          \* None / NaN

EmptyStr == -2      \* ''

NotANumber == -3    \* a text cell that pd.to_numeric cannot parse

\* pd.DataFrame(): no columns, no rows
EmptyDF == [cols |-> {}, rows |-> <<>>]

\* dict.get(key, default)
Get(rec, key, default) == IF key \in DOMAIN rec THEN rec[key] ELSE default

Pad(row, cols) == [c \in cols |-> IF c \in DOMAIN row THEN row[c] ELSE Null]

\* pd.DataFrame(data) for a list of dicts: the union of the keys, NaN for gaps
DataFrame(data) ==
    LET cols == UNION {DOMAIN data[i] : i \in 1..Len(data)}
    IN [cols |-> cols, rows |-> [i \in 1..Len(data) |-> Pad(data[i], cols)]]

\* mutant: the assignment of the column is left out
WithColumnLeftOut(df, column, value) == df

\* df[column] = value
WithColumn(df, column, value) ==
    [cols |-> df.cols \cup {column},
     rows |-> [i \in 1..Len(df.rows) |->
                 [c \in df.cols \cup {column} |->
                     IF c = column THEN value ELSE df.rows[i][c]]]]

\* pd.concat([]) raises ValueError("No objects to concatenate")
CanConcat(dfs) == dfs # <<>>

\* pd.concat(dfs): the frames' rows one frame after the other in list order,
\* over the union of their columns
Concat(dfs) ==
    LET cols == UNION {dfs[i].cols : i \in 1..Len(dfs)}
    IN [cols |-> cols,
        rows |-> Flatten([i \in 1..Len(dfs) |->
                    [k \in 1..Len(dfs[i].rows) |-> Pad(dfs[i].rows[k], cols)]])]

\* df.drop_duplicates().reset_index(drop=True): the first of equal rows stays
DropDuplicates(df) ==
    LET keep(i) == \A j \in 1..(i - 1) : df.rows[j] # df.rows[i]
        F[i \in 0..Len(df.rows)] ==
            IF i = 0 THEN <<>>
            ELSE IF keep(i) THEN Append(F[i - 1], df.rows[i]) ELSE F[i - 1]
    IN [cols |-> df.cols, rows |-> F[Len(df.rows)]]

\* df[[c1, c2]] raises KeyError unless every named column exists
CanSelect(df, cols) == cols \subseteq df.cols

Select(df, cols) ==
    [cols |-> cols, rows |-> [i \in 1..Len(df.rows) |-> [c \in cols |-> df.rows[i][c]]]]

\* left.merge(right, on=key, how='left') raises KeyError unless both have key
CanMerge(left, right, key) == key \in left.cols /\ key \in right.cols

\* every left row in order, once per right row with the same key (in the
\* right table's order), or once with null right columns if there is none
Merge(left, right, key) ==
    LET cols == left.cols \cup right.cols
        join(l, r) == [c \in cols |-> IF c \in left.cols THEN l[c] ELSE r[c]]
        nulls == [c \in right.cols |-> Null]
        matches(l) == SelectSeq(right.rows, LAMBDA r : r[key] = l[key])
        joined(l) == IF matches(l) = <<>> THEN <<join(l, nulls)>>
                     ELSE [k \in 1..Len(matches(l)) |-> join(l, matches(l)[k])]
    IN [cols |-> cols,
        rows |-> Flatten([i \in 1..Len(left.rows) |-> joined(left.rows[i])])]

\* df[column].unique()
Unique(df, column) == {df.rows[i][column] : i \in 1..Len(df.rows)}

\* mutant: the mask is dropped, every row stays
WhereIsInKeepAll(df, column, values) == df

\* df[df[column].isin(values)]
WhereIsIn(df, column, values) ==
    [cols |-> df.cols, rows |-> SelectSeq(df.rows, LAMBDA r : r[column] \in values)]

\* pd.to_numeric(value, errors='coerce')
ToNumeric(value) == IF value = NotANumber \/ value = EmptyStr THEN Null ELSE value

(***************************************************************************)
(* The account configuration and the upstream's data.  Account a of a      *)
(* marketplace is the a-th entry of its configuration list; what the       *)
(* upstream holds for it is fixed, whether a fetch gets it is not.         *)
(* SKU 1 / offer 1 is sold by every account of a marketplace; SKU 99 and   *)
(* offer 77 occur in orders but in no mapping.                             *)
(***************************************************************************)
Marketplaces == {"wb", "ozon", "yandex"}

\* params['PA'] of the a-th account of a marketplace
PA(m, a) == (CASE m = "wb" -> 100 [] m = "ozon" -> 200 [] OTHER -> 300) + a

OzonAttributes(a) ==
    LET shared == [barcode |-> 101, offer_id |-> 1, sku |-> 1, id |-> 1]
        own == [barcode |-> 110 + a, offer_id |-> 10 + a, sku |-> 10 + a, id |-> 10 + a]
    IN IF a = 1 THEN <<shared, own, shared>> ELSE <<shared, own>>

OzonFboPostings(a) ==
    <<[order_id |-> 500 + a, order_number |-> 500 + a, posting_number |-> 510 + a,
       created_at |-> 1,
       products |-> <<[name |-> 1, offer_id |-> 1, sku |-> 1, price |-> 50, quantity |-> 2],
                      [sku |-> 99, quantity |-> 1]>>]>>

OzonFbsPostings(a) ==
    <<[order_id |-> 600 + a, order_number |-> 600 + a, posting_number |-> 610 + a,
       in_process_at |-> 2,
       products |-> <<[name |-> 2, offer_id |-> 10 + a, sku |-> 10 + a,
                       price |-> 70, quantity |-> 1]>>]>>

\* the stock items of the account's own products among the requested SKUs
OzonStockItems(a, skus) ==
    LET wanted == {skus[i] : i \in 1..Len(skus)}
        own == SelectSeq(<<1, 10 + a>>, LAMBDA k : k \in wanted)
    IN [i \in 1..Len(own) |->
          [name |-> own[i], offer_id |-> own[i], sku |-> own[i],
           available_stock_count |-> 5, warehouse_id |-> 40 + a,
           warehouse_name |-> 40 + a, cluster_id |-> 4]]

YandexOfferMappings(a) ==
    <<[offer |-> [offerId |-> 1, barcodes |-> <<201>>, name |-> 1, vendor |-> 1,
                  vendorCode |-> 1]],
      [offer |-> [offerId |-> 20 + a, barcodes |-> <<220 + a, 999>>, name |-> 2]]>>

YandexOrders(a) ==
    <<[id |-> 800 + a, creationDate |-> 3,
       items |-> <<[id |-> 1, offerId |-> 1, offerName |-> 1, price |-> 30,
                    buyerPrice |-> 30, buyerPriceBeforeDiscount |-> 35, vat |-> 1,
                    count |-> 1],
                   [id |-> 2, offerId |-> 77, count |-> 2]>>]>>

\* account a's warehouse list names warehouses 1 and 1 + a
YandexWarehouses(a) == <<[id |-> 1, name |-> 1], [id |-> 1 + a, name |-> 1 + a]>>

\* stock lies in warehouses 1 and 3
YandexOfferStocks(a) ==
    <<[warehouseId |-> 1,
       offers |-> <<[offerId |-> 1, updatedAt |-> 4,
                     stocks |-> <<[type |-> 1, count |-> 5], [type |-> 2, count |-> 4]>>]>>],
      [warehouseId |-> 3,
       offers |-> <<[offerId |-> 20 + a, updatedAt |-> 4,
                     stocks |-> <<[type |-> 1, count |-> 7]>>]>>]>>

WbOrders(a) ==
    <<[date |-> 3, lastChangeDate |-> NotANumber, barcode |-> 101, srid |-> 700 + a,
       totalPrice |-> 100, discountPercent |-> NotANumber]>>

WbStocks(a) ==
    <<[lastChangeDate |-> 3, barcode |-> 101, quantity |-> 5,
       inWayToClient |-> NotANumber, warehouseName |-> 1]>>

(***************************************************************************)
(* The shapers (app/data_processor): raw records to a table tagged with    *)
(* the account label.  Each takes what its client call returned; a failed  *)
(* call returned [].                                                       *)
(***************************************************************************)
\* df[col] = convert(df[col]) for the columns that exist
Coerce(df, columns) ==
    [cols |-> df.cols,
     rows |-> [i \in 1..Len(df.rows) |->
                 [c \in df.cols |->
                     IF c \in columns THEN ToNumeric(df.rows[i][c]) ELSE df.rows[i][c]]]]

wb_get_orders_df(raw_orders, pa) ==
    IF raw_orders = <<>> THEN EmptyDF
    ELSE Coerce(WithColumn(DataFrame(raw_orders), "PA", pa),
                {"totalPrice", "discountPercent", "priceWithDisc", "date", "lastChangeDate"})

wb_get_stocks_df(raw_stocks, pa) ==
    IF raw_stocks = <<>> THEN EmptyDF
    ELSE Coerce(WithColumn(DataFrame(raw_stocks), "PA", pa),
                {"quantity", "inWayToClient", "inWayFromClient", "lastChangeDate"})

ozon_get_info_df(attributes, pa) ==
    IF attributes = <<>> THEN EmptyDF
    ELSE LET data == [i \in 1..Len(attributes) |->
                        [barcode |-> Get(attributes[i], "barcode", EmptyStr),
                         offer_id |-> Get(attributes[i], "offer_id", EmptyStr),
                         sku |-> Get(attributes[i], "sku", Null),
                         product_id |-> Get(attributes[i], "id", Null)]]
         IN WithColumn(DataFrame(data), "PA", pa)

\* mutant: one row per posting, made of its first product, instead of one
\* row per product
process_postings_first_product_only(postings, posting_type, pa) ==
    IF postings = <<>> THEN EmptyDF
    ELSE LET stamp == IF posting_type = "FBO" THEN "created_at" ELSE "in_process_at"
             with_products == SelectSeq(postings,
                                  LAMBDA p : Get(p, "products", <<>>) # <<>>)
             data == [i \in 1..Len(with_products) |->
                        [created_at |-> Get(with_products[i], stamp, EmptyStr),
                         order_id |-> Get(with_products[i], "order_id", Null),
                         sku |-> Get(with_products[i].products[1], "sku", Null),
                         quantity |-> Get(with_products[i].products[1], "quantity", Null)]]
         IN WithColumn(DataFrame(data), "PA", pa)

\* get_orders_df.process_postings
process_postings(postings, posting_type, pa) ==
    IF postings = <<>> THEN EmptyDF
    ELSE LET stamp == IF posting_type = "FBO" THEN "created_at" ELSE "in_process_at"
             products(p) == Get(p, "products", <<>>)
             row(p, x) ==
                 [created_at |-> Get(p, stamp, EmptyStr),
                  order_id |-> Get(p, "order_id", Null),
                  order_number |-> Get(p, "order_number", EmptyStr),
                  posting_number |-> Get(p, "posting_number", EmptyStr),
                  name |-> Get(x, "name", EmptyStr),
                  offer_id |-> Get(x, "offer_id", EmptyStr),
                  sku |-> Get(x, "sku", Null),
                  price |-> Get(x, "price", EmptyStr),
                  quantity |-> Get(x, "quantity", Null)]
             data == Flatten([i \in 1..Len(postings) |->
                        [k \in 1..Len(products(postings[i])) |->
                            row(postings[i], products(postings[i])[k])]])
         IN WithColumn(DataFrame(data), "PA", pa)

\* fbo_df, fbs_df = await asyncio.gather(...); pd.concat([fbo_df, fbs_df])
ozon_get_orders_df(fbo, fbs, pa) ==
    Concat(<<process_postings(fbo, "FBO", pa), process_postings(fbs, "FBS", pa)>>)

ozon_get_stocks_df(stocks, pa) ==
    IF stocks = <<>> THEN EmptyDF
    ELSE LET data == [i \in 1..Len(stocks) |->
                        [name |-> Get(stocks[i], "name", EmptyStr),
                         offer_id |-> Get(stocks[i], "offer_id", EmptyStr),
                         sku |-> Get(stocks[i], "sku", Null),
                         available_stock_count |->
                             Get(stocks[i], "available_stock_count", Null),
                         warehouse_id |-> Get(stocks[i], "warehouse_id", Null),
                         warehouse_name |-> Get(stocks[i], "warehouse_name", Null),
                         cluster_id |-> Get(stocks[i], "cluster_id", Null)]]
         IN WithColumn(DataFrame(data), "PA", pa)

yandex_get_orders_df(orders, pa) ==
    IF orders = <<>> THEN EmptyDF
    ELSE LET items(o) == Get(o, "items", <<>>)
             row(o, x) ==
                 [creationDate |-> Get(o, "creationDate", EmptyStr),
                  order_id |-> Get(o, "id", Null),
                  item_id |-> Get(x, "id", Null),
                  offerId |-> Get(x, "offerId", EmptyStr),
                  offerName |-> Get(x, "offerName", EmptyStr),
                  price |-> Get(x, "price", Null),
                  buyerPrice |-> Get(x, "buyerPrice", Null),
                  buyerPriceBeforeDiscount |-> Get(x, "buyerPriceBeforeDiscount", Null),
                  vat |-> Get(x, "vat", EmptyStr),
                  count |-> Get(x, "count", Null)]
             data == Flatten([i \in 1..Len(orders) |->
                        [k \in 1..Len(items(orders[i])) |->
                            row(orders[i], items(orders[i])[k])]])
         IN WithColumn(DataFrame(data), "PA", pa)

\* offer.get('barcodes', [])[0] raises IndexError on an offer without
\* barcodes; the except clause then returns pd.DataFrame()
yandex_get_info_df(mappings, pa) ==
    IF mappings = <<>> THEN EmptyDF
    ELSE LET offer(i) == Get(mappings[i], "offer", <<>>)
             barcodes(i) == Get(offer(i), "barcodes", <<>>)
         IN IF \E i \in 1..Len(mappings) : barcodes(i) = <<>> THEN EmptyDF
            ELSE LET data == [i \in 1..Len(mappings) |->
                                [offerId |-> Get(offer(i), "offerId", EmptyStr),
                                 barcode |-> barcodes(i)[1],
                                 name |-> Get(offer(i), "name", EmptyStr),
                                 vendor |-> Get(offer(i), "vendor", EmptyStr),
                                 vendorCode |-> Get(offer(i), "vendorCode", EmptyStr)]]
                 IN WithColumn(DataFrame(data), "PA", pa)

yandex_get_stocks_df(stocks, pa) ==
    IF stocks = <<>> THEN EmptyDF
    ELSE LET offers(w) == Get(w, "offers", <<>>)
             levels(x) == Get(x, "stocks", <<>>)
             row(w, x, l) ==
                 [warehouseId |-> Get(w, "warehouseId", EmptyStr),
                  offerId |-> Get(x, "offerId", EmptyStr),
                  updatedAt |-> Get(x, "updatedAt", EmptyStr),
                  type |-> Get(l, "type", EmptyStr),
                  count |-> Get(l, "count", Null)]
             ofOffer(w, x) == [k \in 1..Len(levels(x)) |-> row(w, x, levels(x)[k])]
             ofWarehouse(w) ==
                 Flatten([j \in 1..Len(offers(w)) |-> ofOffer(w, offers(w)[j])])
             data == Flatten([i \in 1..Len(stocks) |-> ofWarehouse(stocks[i])])
         IN WithColumn(DataFrame(data), "PA", pa)

yandex_get_warehouses_df(warehouses, pa) ==
    IF warehouses = <<>> THEN EmptyDF
    ELSE LET data == [i \in 1..Len(warehouses) |->
                        [warehouseId |-> Get(warehouses[i], "id", Null),
                         name |-> Get(warehouses[i], "name", EmptyStr)]]
         IN WithColumn(DataFrame(data), "PA", pa)

(***************************************************************************)
(* The aggregator (app/main.py).  A run awaits nine asyncio.gather calls   *)
(* one after the other; between two awaits its code runs without           *)
(* interruption, so each action below is either one account's shaper       *)
(* finishing or the code from one gather's return to the next await.       *)
(***************************************************************************)
MaxAccounts == 4    \* configured accounts, the three marketplaces together

MaxFailures == 1    \* upstream calls that fail in one run

Gathers == <<"ozon_info", "yandex_info", "yandex_warehouses",
             "wb_orders", "ozon_orders", "yandex_orders",
             "wb_stocks", "ozon_stocks", "yandex_stocks">>

Resources == {Gathers[i] : i \in 1..Len(Gathers)}

AdditionalResources == {"ozon_info", "yandex_info", "yandex_warehouses"}

MarketOf(r) ==
    CASE r \in {"wb_orders", "wb_stocks"} -> "wb"
      [] r \in {"ozon_info", "ozon_orders", "ozon_stocks"} -> "ozon"
      [] OTHER -> "yandex"

\* for params in <marketplace>_API_CONF_LIST_MAP
Accounts(r) == 1..conf[MarketOf(r)]

\* how one account's fetch can end; the Ozon order shaper fetches FBO and FBS
Outcomes(r) ==
    IF r = "ozon_orders" THEN {"ok", "fbo_only", "fbs_only", "failed"}
    ELSE {"ok", "failed"}

Finished(status) == status \notin {"idle", "running"}

\* .astype('str') on a cell
AsStr(value) == <<"str", value>>

\* the upstream reading a SKU sent as text
ParseSku(text) == text[2]

\* additional_data['ozon_attributes_info']['sku'].astype('str').tolist()
ozon_skus ==
    [i \in 1..Len(additional_data.ozon_attributes_info.rows) |->
        AsStr(additional_data.ozon_attributes_info.rows[i]["sku"])]

\* the table the shaper of gather r returns for account a when its fetch ends
\* in outcome; sku_list is the list the Ozon stock shaper is called with
TableOf(r, a, outcome, sku_list) ==
    LET pa == PA(MarketOf(r), a)
        got(data) == IF outcome = "ok" THEN data ELSE <<>>
        fbo == IF outcome \in {"ok", "fbo_only"} THEN OzonFboPostings(a) ELSE <<>>
        fbs == IF outcome \in {"ok", "fbs_only"} THEN OzonFbsPostings(a) ELSE <<>>
        skus == [i \in 1..Len(sku_list) |-> ParseSku(sku_list[i])]
    IN CASE r = "ozon_info" -> ozon_get_info_df(got(OzonAttributes(a)), pa)
         [] r = "yandex_info" -> yandex_get_info_df(got(YandexOfferMappings(a)), pa)
         [] r = "yandex_warehouses" -> yandex_get_warehouses_df(got(YandexWarehouses(a)), pa)
         [] r = "wb_orders" -> wb_get_orders_df(got(WbOrders(a)), pa)
         [] r = "ozon_orders" -> ozon_get_orders_df(fbo, fbs, pa)
         [] r = "yandex_orders" -> yandex_get_orders_df(got(YandexOrders(a)), pa)
         [] r = "wb_stocks" -> wb_get_stocks_df(got(WbStocks(a)), pa)
         [] r = "ozon_stocks" -> ozon_get_stocks_df(got(OzonStockItems(a, skus)), pa)
         [] OTHER -> yandex_get_stocks_df(got(YandexOfferStocks(a)), pa)

\* the table the shaper of gather r returned for account a
Result(r, a) ==
    TableOf(r, a, fetch[r][a],
            IF r = "ozon_stocks" /\ a \in DOMAIN args.skus THEN args.skus[a] ELSE <<>>)

\* mutant: the results are collected as the tasks complete (as_completed)
GatherResultsAsCompleted(r) == [i \in 1..Len(order) |-> Result(r, order[i])]

\* the list asyncio.gather returns: one result per account, in list order
GatherResults(r) == [a \in Accounts(r) |-> Result(r, a)]

\* mutant: the await returns as soon as one fetch has finished
GatherDoneFirstCompleted(r) ==
    Accounts(r) = {} \/ \E a \in Accounts(r) : Finished(fetch[r][a])

\* await asyncio.gather(*tasks) returns once every task has finished
GatherDone(r) == \A a \in Accounts(r) : Finished(fetch[r][a])

\* tasks = [shaper(params, session) for params in CONF]; asyncio.gather(*tasks)
Launch(r) ==
    /\ fetch' = [fetch EXCEPT ![r] = [a \in Accounts(r) |-> "running"]]
    /\ order' = <<>>
    /\ pc' = r

\* mutant: download_report has no except clause, the exception propagates
FailPropagates(r, exc) ==
    /\ gathered' = gathered \cup {r}
    /\ pc' = "done"
    /\ response' = "raised"
    /\ error' = exc
    /\ UNCHANGED <<conf, fetch, order, additional_data, orders_data,
                   stocks_data, sheets>>

\* an exception leaves generate_excel_file; download_report's except clause
\* logs it and returns the error text (the caller says what became of concat)
Fail(r, exc) ==
    /\ gathered' = gathered \cup {r}
    /\ pc' = "done"
    /\ response' = "error_text"
    /\ error' = exc
    /\ UNCHANGED <<conf, fetch, order, additional_data, orders_data,
                   stocks_data, sheets>>

NoAdditionalData ==
    [ozon_attributes_info |-> EmptyDF, yandex_attributes_info |-> EmptyDF,
     yandex_warehouses |-> EmptyDF]

NoOrders == [wb_orders |-> EmptyDF, ozon_orders |-> EmptyDF, yandex_orders |-> EmptyDF]

NoStocks == [wb_stocks |-> EmptyDF, ozon_stocks |-> EmptyDF, yandex_stocks |-> EmptyDF]

\* the upstream calls an outcome of a fetch of gather r stands for
FailedCalls(r, outcome) ==
    CASE outcome \in {"idle", "running", "ok"} -> 0
      [] outcome = "failed" /\ r = "ozon_orders" -> 2
      [] OTHER -> 1

RECURSIVE Sum(_, _)
Sum(f, S) == IF S = {} THEN 0
             ELSE LET x == CHOOSE x \in S : TRUE IN f[x] + Sum(f, S \ {x})

\* the upstream calls that have failed so far in this run
Failures ==
    Sum([r \in Resources |->
            Sum([a \in DOMAIN fetch[r] |-> FailedCalls(r, fetch[r][a])], DOMAIN fetch[r])],
        Resources)

\* one account's shaper returns: its fetch ended in one of the outcomes
Complete(r) ==
    \E a \in Accounts(r) :
        /\ fetch[r][a] = "running"
        /\ \E outcome \in Outcomes(r) :
               /\ Failures + FailedCalls(r, outcome) <= MaxFailures
               /\ fetch' = [fetch EXCEPT ![r][a] = outcome]
        /\ order' = Append(order, a)
        /\ UNCHANGED <<conf, pc, gathered, concat, additional_data, orders_data,
                       stocks_data, sheets, response, error>>

fetch_ozon_info ==
    /\ UNCHANGED clientVars
    /\ Complete("ozon_info")

fetch_yandex_info ==
    /\ UNCHANGED clientVars
    /\ Complete("yandex_info")

fetch_yandex_warehouses ==
    /\ UNCHANGED clientVars
    /\ Complete("yandex_warehouses")

fetch_wb_orders ==
    /\ UNCHANGED clientVars
    /\ Complete("wb_orders")

fetch_ozon_orders ==
    /\ UNCHANGED clientVars
    /\ Complete("ozon_orders")

fetch_yandex_orders ==
    /\ UNCHANGED clientVars
    /\ Complete("yandex_orders")

fetch_wb_stocks ==
    /\ UNCHANGED clientVars
    /\ Complete("wb_stocks")

fetch_ozon_stocks ==
    /\ UNCHANGED clientVars
    /\ Complete("ozon_stocks")

fetch_yandex_stocks ==
    /\ UNCHANGED clientVars
    /\ Complete("yandex_stocks")

\* mutant: get_orders is started together with get_additional_data
download_report_start_orders_at_once ==
    /\ pc = "start"
    /\ fetch' = [fetch EXCEPT
                   !["ozon_info"] = [a \in Accounts("ozon_info") |-> "running"],
                   !["wb_orders"] = [a \in Accounts("wb_orders") |-> "running"]]
    /\ order' = <<>>
    /\ pc' = "ozon_info"
    /\ UNCHANGED <<conf, gathered, concat, additional_data, orders_data,
                   stocks_data, sheets, response, error>>
    /\ UNCHANGED clientVars

\* download_report -> generate_excel_file -> get_additional_data, to its
\* first await
download_report_start ==
    /\ pc = "start"
    /\ Launch("ozon_info")
    /\ UNCHANGED <<conf, gathered, concat, additional_data, orders_data,
                   stocks_data, sheets, response, error>>
    /\ UNCHANGED clientVars

\* the gather of r has returned: concat its results, go on to the gather of next
ConcatThenLaunch(r, next) ==
    /\ pc = r /\ GatherDone(r)
    /\ IF ~CanConcat(GatherResults(r)) THEN Fail(r, "ValueError") /\ UNCHANGED concat
       ELSE /\ concat' = [concat EXCEPT ![r] = Concat(GatherResults(r))]
            /\ gathered' = gathered \cup {r}
            /\ Launch(next)
            /\ UNCHANGED <<conf, additional_data, orders_data, stocks_data,
                           sheets, response, error>>

\* get_additional_data: ozon_info_results gathered, Yandex info launched
after_ozon_info ==
    /\ UNCHANGED clientVars
    /\ ConcatThenLaunch("ozon_info", "yandex_info")

\* get_additional_data: yandex_info_results gathered, warehouses launched
after_yandex_info ==
    /\ UNCHANGED clientVars
    /\ ConcatThenLaunch("yandex_info", "yandex_warehouses")

\* get_additional_data returns its three tables; get_orders launches WB
after_yandex_warehouses ==
    /\ pc = "yandex_warehouses" /\ GatherDone("yandex_warehouses")
    /\ UNCHANGED clientVars
    /\ LET res == GatherResults("yandex_warehouses")
           ozon_attributes_info_df == DropDuplicates(concat["ozon_info"])
           yandex_attributes_info_df == DropDuplicates(concat["yandex_info"])
       IN
       IF ~CanConcat(res) THEN Fail("yandex_warehouses", "ValueError") /\ UNCHANGED concat
       ELSE IF \/ ~CanSelect(ozon_attributes_info_df, {"barcode", "sku"})
               \/ ~CanSelect(yandex_attributes_info_df, {"offerId", "barcode"})
       THEN /\ Fail("yandex_warehouses", "KeyError")
            /\ concat' = [concat EXCEPT !["yandex_warehouses"] = Concat(res)]
       ELSE /\ concat' = [concat EXCEPT !["yandex_warehouses"] = Concat(res)]
            /\ additional_data' =
                 [ozon_attributes_info |->
                      Select(ozon_attributes_info_df, {"barcode", "sku"}),
                  yandex_attributes_info |->
                      Select(yandex_attributes_info_df, {"offerId", "barcode"}),
                  yandex_warehouses |-> DropDuplicates(Concat(res))]
            /\ gathered' = gathered \cup {"yandex_warehouses"}
            /\ Launch("wb_orders")
            /\ UNCHANGED <<conf, orders_data, stocks_data, sheets, response, error>>

\* mutant: the WB order tables are concatenated as their fetches complete
after_wb_orders_as_completed ==
    /\ pc = "wb_orders" /\ GatherDone("wb_orders")
    /\ UNCHANGED clientVars
    /\ LET res == [i \in 1..Len(order) |-> Result("wb_orders", order[i])] IN
       IF ~CanConcat(res) THEN Fail("wb_orders", "ValueError") /\ UNCHANGED concat
       ELSE /\ concat' = [concat EXCEPT !["wb_orders"] = Concat(res)]
            /\ orders_data' = [orders_data EXCEPT !.wb_orders = Concat(res)]
            /\ gathered' = gathered \cup {"wb_orders"}
            /\ Launch("ozon_orders")
            /\ UNCHANGED <<conf, additional_data, stocks_data, sheets, response, error>>

\* get_orders: the WB table is the concatenation; Ozon launched
after_wb_orders ==
    /\ pc = "wb_orders" /\ GatherDone("wb_orders")
    /\ UNCHANGED clientVars
    /\ LET res == GatherResults("wb_orders") IN
       IF ~CanConcat(res) THEN Fail("wb_orders", "ValueError") /\ UNCHANGED concat
       ELSE /\ concat' = [concat EXCEPT !["wb_orders"] = Concat(res)]
            /\ orders_data' = [orders_data EXCEPT !.wb_orders = Concat(res)]
            /\ gathered' = gathered \cup {"wb_orders"}
            /\ Launch("ozon_orders")
            /\ UNCHANGED <<conf, additional_data, stocks_data, sheets, response, error>>

\* get_orders: Ozon orders merged with the Ozon mapping; Yandex launched
after_ozon_orders ==
    /\ pc = "ozon_orders" /\ GatherDone("ozon_orders")
    /\ UNCHANGED clientVars
    /\ LET res == GatherResults("ozon_orders") IN
       IF ~CanConcat(res) THEN Fail("ozon_orders", "ValueError") /\ UNCHANGED concat
       ELSE IF ~CanMerge(Concat(res), additional_data.ozon_attributes_info, "sku")
       THEN /\ Fail("ozon_orders", "KeyError")
            /\ concat' = [concat EXCEPT !["ozon_orders"] = Concat(res)]
       ELSE /\ concat' = [concat EXCEPT !["ozon_orders"] = Concat(res)]
            /\ orders_data' = [orders_data EXCEPT !.ozon_orders =
                   Merge(Concat(res), additional_data.ozon_attributes_info, "sku")]
            /\ gathered' = gathered \cup {"ozon_orders"}
            /\ Launch("yandex_orders")
            /\ UNCHANGED <<conf, additional_data, stocks_data, sheets, response, error>>

\* get_orders returns; get_stocks launches WB
after_yandex_orders ==
    /\ pc = "yandex_orders" /\ GatherDone("yandex_orders")
    /\ UNCHANGED clientVars
    /\ LET res == GatherResults("yandex_orders") IN
       IF ~CanConcat(res) THEN Fail("yandex_orders", "ValueError") /\ UNCHANGED concat
       ELSE IF ~CanMerge(Concat(res), additional_data.yandex_attributes_info, "offerId")
       THEN /\ Fail("yandex_orders", "KeyError")
            /\ concat' = [concat EXCEPT !["yandex_orders"] = Concat(res)]
       ELSE /\ concat' = [concat EXCEPT !["yandex_orders"] = Concat(res)]
            /\ orders_data' = [orders_data EXCEPT !.yandex_orders =
                   Merge(Concat(res), additional_data.yandex_attributes_info, "offerId")]
            /\ gathered' = gathered \cup {"yandex_orders"}
            /\ Launch("wb_stocks")
            /\ UNCHANGED <<conf, additional_data, stocks_data, sheets, response, error>>

\* mutant: each account's stock shaper gets the SKUs of its own products only
after_wb_stocks_own_skus ==
    /\ pc = "wb_stocks" /\ GatherDone("wb_stocks")
    /\ UNCHANGED <<op, cursor, requests, responses, results, ret>>
    /\ LET res == GatherResults("wb_stocks") IN
       IF ~CanConcat(res)
       THEN Fail("wb_stocks", "ValueError") /\ UNCHANGED <<concat, args>>
       ELSE /\ concat' = [concat EXCEPT !["wb_stocks"] = Concat(res)]
            /\ stocks_data' = [stocks_data EXCEPT !.wb_stocks = Concat(res)]
            /\ gathered' = gathered \cup {"wb_stocks"}
            /\ args' = [args EXCEPT !.skus =
                   [a \in Accounts("ozon_stocks") |->
                      LET own == SelectSeq(concat["ozon_info"].rows,
                                           LAMBDA row : row["PA"] = PA("ozon", a))
                      IN [i \in 1..Len(own) |-> AsStr(own[i]["sku"])]]]
            /\ Launch("ozon_stocks")
            /\ UNCHANGED <<conf, additional_data, orders_data, sheets, response, error>>

\* get_stocks: the WB table is the concatenation; every Ozon stock shaper is
\* called with ozon_skus (args.skus[a] is the list account a's call got)
after_wb_stocks ==
    /\ pc = "wb_stocks" /\ GatherDone("wb_stocks")
    /\ UNCHANGED <<op, cursor, requests, responses, results, ret>>
    /\ LET res == GatherResults("wb_stocks") IN
       IF ~CanConcat(res)
       THEN Fail("wb_stocks", "ValueError") /\ UNCHANGED <<concat, args>>
       ELSE /\ concat' = [concat EXCEPT !["wb_stocks"] = Concat(res)]
            /\ stocks_data' = [stocks_data EXCEPT !.wb_stocks = Concat(res)]
            /\ gathered' = gathered \cup {"wb_stocks"}
            /\ args' = [args EXCEPT !.skus = [a \in Accounts("ozon_stocks") |-> ozon_skus]]
            /\ Launch("ozon_stocks")
            /\ UNCHANGED <<conf, additional_data, orders_data, sheets, response, error>>

\* get_stocks: Ozon stocks merged with the Ozon mapping; Yandex launched
after_ozon_stocks ==
    /\ pc = "ozon_stocks" /\ GatherDone("ozon_stocks")
    /\ UNCHANGED clientVars
    /\ LET res == GatherResults("ozon_stocks") IN
       IF ~CanConcat(res) THEN Fail("ozon_stocks", "ValueError") /\ UNCHANGED concat
       ELSE IF ~CanMerge(Concat(res), additional_data.ozon_attributes_info, "sku")
       THEN /\ Fail("ozon_stocks", "KeyError")
            /\ concat' = [concat EXCEPT !["ozon_stocks"] = Concat(res)]
       ELSE /\ concat' = [concat EXCEPT !["ozon_stocks"] = Concat(res)]
            /\ stocks_data' = [stocks_data EXCEPT !.ozon_stocks =
                   Merge(Concat(res), additional_data.ozon_attributes_info, "sku")]
            /\ gathered' = gathered \cup {"ozon_stocks"}
            /\ Launch("yandex_stocks")
            /\ UNCHANGED <<conf, additional_data, orders_data, sheets, response, error>>

\* mutant: a table without rows gets no sheet
WorkbookWithoutEmptySheets(orders, stocks) ==
    SelectSeq(<<[sheet_name |-> "WB_orders", table |-> orders.wb_orders],
                [sheet_name |-> "OZON_orders", table |-> orders.ozon_orders],
                [sheet_name |-> "YANDEX_orders", table |-> orders.yandex_orders],
                [sheet_name |-> "WB_stocks", table |-> stocks.wb_stocks],
                [sheet_name |-> "OZON_stocks", table |-> stocks.ozon_stocks],
                [sheet_name |-> "YANDEX_stocks", table |-> stocks.yandex_stocks]>>,
              LAMBDA sheet : sheet.table.rows # <<>>)

\* the six sheets of the workbook, in the order they are written
Workbook(orders, stocks) ==
    <<[sheet_name |-> "WB_orders", table |-> orders.wb_orders],
      [sheet_name |-> "OZON_orders", table |-> orders.ozon_orders],
      [sheet_name |-> "YANDEX_orders", table |-> orders.yandex_orders],
      [sheet_name |-> "WB_stocks", table |-> stocks.wb_stocks],
      [sheet_name |-> "OZON_stocks", table |-> stocks.ozon_stocks],
      [sheet_name |-> "YANDEX_stocks", table |-> stocks.yandex_stocks]>>

\* get_stocks returns: Yandex stocks merged with the Yandex mapping and cut
\* to the warehouses of the warehouse table; generate_excel_file writes the
\* workbook; download_report returns it
after_yandex_stocks ==
    /\ pc = "yandex_stocks" /\ GatherDone("yandex_stocks")
    /\ UNCHANGED clientVars
    /\ LET res == GatherResults("yandex_stocks") IN
       IF ~CanConcat(res) THEN Fail("yandex_stocks", "ValueError") /\ UNCHANGED concat
       ELSE IF ~CanMerge(Concat(res), additional_data.yandex_attributes_info, "offerId")
       THEN /\ Fail("yandex_stocks", "KeyError")
            /\ concat' = [concat EXCEPT !["yandex_stocks"] = Concat(res)]
       ELSE IF \/ "warehouseId" \notin Concat(res).cols
               \/ "warehouseId" \notin additional_data.yandex_warehouses.cols
       THEN /\ Fail("yandex_stocks", "KeyError")
            /\ concat' = [concat EXCEPT !["yandex_stocks"] = Concat(res)]
       ELSE LET yandex_stocks_df ==
                    Merge(Concat(res), additional_data.yandex_attributes_info, "offerId")
                stocks == [stocks_data EXCEPT !.yandex_stocks =
                    WhereIsIn(yandex_stocks_df, "warehouseId",
                              Unique(additional_data.yandex_warehouses, "warehouseId"))]
            IN
            /\ concat' = [concat EXCEPT !["yandex_stocks"] = Concat(res)]
            /\ stocks_data' = stocks
            /\ gathered' = gathered \cup {"yandex_stocks"}
            /\ sheets' = Workbook(orders_data, stocks)
            /\ response' = "xlsx"
            /\ pc' = "done"
            /\ UNCHANGED <<conf, fetch, order, additional_data, orders_data, error>>

\* the fixed Russian sentence download_report returns ("ERROR. Something went
\* wrong. Try again later"), transliterated
ErrorText == "OSHIBKA. Chto-to poshlo ne tak. Povtorite pozzhe"

\* what download_report hands to the framework: a Response with the workbook
\* bytes and the two headers, or the bare error string (which the framework
\* sends with its default status, as it does the Response)
HttpReply ==
    CASE response = "xlsx" ->
            [status_code |-> 200,
             content |-> sheets,
             headers |-> [ContentDisposition |-> "attachment; filename=orders_and_stocks.xlsx",
                          ContentType |->
             "application/vnd.openxmlformats-officedocument.spreadsheetml.sheet"]]
      [] response = "error_text" ->
            [status_code |-> 200, content |-> ErrorText, headers |-> <<>>]
      [] response = "raised" ->
            [status_code |-> 500, content |-> "Internal Server Error", headers |-> <<>>]
      [] OTHER -> [status_code |-> 0, content |-> <<>>, headers |-> <<>>]

\* no fetch issued yet, for the configuration c
NothingFetched(c) == [r \in Resources |-> [a \in 1..c[MarketOf(r)] |-> "idle"]]

NothingGathered == [r \in Resources |-> EmptyDF]

\* what a run starts from: nothing fetched, nothing computed
FreshRun(c) ==
    /\ conf = c
    /\ pc = "start"
    /\ fetch = NothingFetched(c)
    /\ order = <<>>
    /\ gathered = {}
    /\ concat = NothingGathered
    /\ additional_data = NoAdditionalData
    /\ orders_data = NoOrders
    /\ stocks_data = NoStocks
    /\ sheets = <<>>
    /\ response = "pending"
    /\ error = "none"

\* the next GET of the endpoint: everything but the configuration is rebuilt
next_request ==
    /\ pc = "done"
    /\ pc' = "start"
    /\ fetch' = NothingFetched(conf)
    /\ order' = <<>>
    /\ gathered' = {}
    /\ concat' = NothingGathered
    /\ additional_data' = NoAdditionalData
    /\ orders_data' = NoOrders
    /\ stocks_data' = NoStocks
    /\ sheets' = <<>>
    /\ response' = "pending"
    /\ error' = "none"
    /\ args' = NoArgs
    /\ UNCHANGED conf
    /\ UNCHANGED <<op, cursor, requests, responses, results, ret>>

Configurations ==
    {c \in [Marketplaces -> 0..MaxAccounts] : c.wb + c.ozon + c.yandex <= MaxAccounts}

NoClientCall ==
    /\ op = "none"
    /\ args = NoArgs
    /\ cursor = 0
    /\ requests = <<>>
    /\ responses = <<>>
    /\ results = <<>>
    /\ ret = Pending

Init ==
    /\ NoClientCall
    /\ \E c \in Configurations : FreshRun(c)

Next ==
    \/ download_report_start
    \/ fetch_ozon_info
    \/ after_ozon_info
    \/ fetch_yandex_info
    \/ after_yandex_info
    \/ fetch_yandex_warehouses
    \/ after_yandex_warehouses
    \/ fetch_wb_orders
    \/ after_wb_orders
    \/ fetch_ozon_orders
    \/ after_ozon_orders
    \/ fetch_yandex_orders
    \/ after_yandex_orders
    \/ fetch_wb_stocks
    \/ after_wb_stocks
    \/ fetch_ozon_stocks
    \/ after_ozon_stocks
    \/ fetch_yandex_stocks
    \/ after_yandex_stocks
    \/ next_request

Spec == Init /\ [][Next]_vars

(***************************************************************************)
(* SpecShaper: one shaper applied to the raw records its client call       *)
(* returned.  The lists hold up to MaxRaw records; a nested record holds   *)
(* up to MaxItems line items; a record is complete or lacks one field.     *)
(***************************************************************************)
MaxRaw == 2      \* raw records in one list

MaxItems == 2    \* line items of one posting / order / warehouse

Shapers == {"wb_get_orders_df", "wb_get_stocks_df", "ozon_get_info_df",
            "ozon_get_orders_df", "ozon_get_stocks_df", "yandex_get_orders_df",
            "yandex_get_info_df", "yandex_get_stocks_df", "yandex_get_warehouses_df"}

\* the record without the field (the record itself if it has none such)
Without(rec, field) == [k \in DOMAIN rec \ {field} |-> rec[k]]

\* the i-th complete raw record of the shapers that map record to row
FullRecord(shaper, i) ==
    CASE shaper = "wb_get_orders_df" ->
            [date |-> 10 + i, lastChangeDate |-> 20 + i, barcode |-> 100 + i,
             srid |-> 700 + i, totalPrice |-> 50 + i, discountPercent |-> NotANumber]
      [] shaper = "wb_get_stocks_df" ->
            [lastChangeDate |-> 20 + i, barcode |-> 100 + i, quantity |-> 5 + i,
             inWayToClient |-> NotANumber, warehouseName |-> 40 + i]
      [] shaper = "ozon_get_info_df" ->
            [barcode |-> 100 + i, offer_id |-> 10 + i, sku |-> 30 + i, id |-> 60 + i]
      [] shaper = "ozon_get_stocks_df" ->
            [name |-> 10 + i, offer_id |-> 20 + i, sku |-> 30 + i,
             available_stock_count |-> 5 + i, warehouse_id |-> 40 + i,
             warehouse_name |-> 50 + i, cluster_id |-> 4]
      [] shaper = "yandex_get_warehouses_df" -> [id |-> 40 + i, name |-> 50 + i]
      [] OTHER -> <<>>

\* what a record may lack: "none", or one of its fields
FlatLacks(shaper) == {"none"} \cup DOMAIN FullRecord(shaper, 1)

\* an Ozon posting with d.n products, lacking d.lacks
OzonPosting(posting_type, i, d) ==
    LET base == IF posting_type = "FBO" THEN 0 ELSE 5
        product(k) ==
            Without([name |-> 10 * (base + i) + k, offer_id |-> 10 * (base + i) + k,
                     sku |-> 10 * (base + i) + k, price |-> 70 + k, quantity |-> k],
                    d.lacks)
        shared == [order_id |-> 500 + base + i, order_number |-> 600 + base + i,
                   posting_number |-> 700 + base + i,
                   products |-> [k \in 1..d.n |-> product(k)]]
        posting == IF posting_type = "FBO"
                   THEN [created_at |-> 800 + i] @@ shared
                   ELSE [in_process_at |-> 900 + i] @@ shared
    IN Without(posting, d.lacks)

OzonPostingLacks == {"none", "order_id", "created_at", "products", "sku"}

\* a Yandex order with d.n items, lacking d.lacks
YandexOrder(i, d) ==
    LET item(k) ==
            Without([id |-> k, offerId |-> 10 * i + k, offerName |-> 10 * i + k,
                     price |-> 30 + k, buyerPrice |-> 30 + k,
                     buyerPriceBeforeDiscount |-> 35 + k, vat |-> 1, count |-> k],
                    d.lacks)
    IN Without([id |-> 800 + i, creationDate |-> 900 + i,
                items |-> [k \in 1..d.n |-> item(k)]], d.lacks)

YandexOrderLacks == {"none", "creationDate", "items", "offerId"}

\* a Yandex offer mapping; "empty" is an offer whose barcodes list is []
YandexMapping(i, lacks) ==
    LET offer == [offerId |-> 10 + i, barcodes |-> <<200 + i, 999>>, name |-> 20 + i,
                  vendor |-> 30 + i, vendorCode |-> 40 + i]
    IN CASE lacks = "offer" -> [id |-> i]
         [] lacks = "empty" -> [offer |-> [offer EXCEPT !.barcodes = <<>>]]
         [] OTHER -> [offer |-> Without(offer, lacks)]

YandexMappingLacks == {"none", "offer", "offerId", "barcodes", "empty", "name", "vendorCode"}

\* a Yandex warehouse with d.n offers, the k-th with k stock levels
YandexWarehouseStock(i, d) ==
    LET level(k, l) == Without([type |-> l, count |-> 10 * k + l], d.lacks)
        offer(k) ==
            Without([offerId |-> 10 * i + k, updatedAt |-> 900 + i,
                     stocks |-> [l \in 1..k |-> level(k, l)]], d.lacks)
    IN Without([warehouseId |-> 40 + i, offers |-> [k \in 1..d.n |-> offer(k)]], d.lacks)

YandexWarehouseStockLacks == {"none", "warehouseId", "offers", "stocks", "count"}

\* the lists of up to MaxRaw descriptions drawn from D
Lists(D) == UNION {[1..n -> D] : n \in 0..MaxRaw}

Nested(lacks) == [n : 0..MaxItems, lacks : lacks]

\* the raw lists a shaper is applied to
ShaperArgs(shaper) ==
    CASE shaper = "ozon_get_orders_df" ->
            {[fbo |-> [i \in DOMAIN d |-> OzonPosting("FBO", i, d[i])],
              fbs |-> [i \in 1..Len(n) |-> OzonPosting("FBS", i, [n |-> n[i], lacks |-> "none"])],
              pa |-> PA("ozon", 1)] :
                d \in Lists(Nested(OzonPostingLacks)),
                n \in {<<>>} \cup {<<k>> : k \in 0..MaxItems}}
      [] shaper = "yandex_get_orders_df" ->
            {[raw |-> [i \in DOMAIN d |-> YandexOrder(i, d[i])], pa |-> PA("yandex", 1)] :
                d \in Lists(Nested(YandexOrderLacks))}
      [] shaper = "yandex_get_stocks_df" ->
            {[raw |-> [i \in DOMAIN d |-> YandexWarehouseStock(i, d[i])],
              pa |-> PA("yandex", 1)] :
                d \in Lists(Nested(YandexWarehouseStockLacks))}
      [] shaper = "yandex_get_info_df" ->
            {[raw |-> [i \in DOMAIN d |-> YandexMapping(i, d[i])], pa |-> PA("yandex", 1)] :
                d \in Lists(YandexMappingLacks)}
      [] OTHER ->
            {[raw |-> [i \in DOMAIN d |-> Without(FullRecord(shaper, i), d[i])],
              pa |-> PA(IF shaper \in {"wb_get_orders_df", "wb_get_stocks_df"}
                        THEN "wb"
                        ELSE IF shaper = "yandex_get_warehouses_df" THEN "yandex"
                        ELSE "ozon", 1)] :
                d \in Lists(FlatLacks(shaper))}

\* the shaper returns the table it made of the raw records
Shape(shaper, table) ==
    /\ op = shaper
    /\ ret = Pending
    /\ ret' = Returned(table)
    /\ UNCHANGED <<op, args, cursor, requests, responses, results>>

call_wb_get_orders_df ==
    /\ UNCHANGED pipeVars
    /\ Shape("wb_get_orders_df", wb_get_orders_df(args.raw, args.pa))

call_wb_get_stocks_df ==
    /\ UNCHANGED pipeVars
    /\ Shape("wb_get_stocks_df", wb_get_stocks_df(args.raw, args.pa))

call_ozon_get_info_df ==
    /\ UNCHANGED pipeVars
    /\ Shape("ozon_get_info_df", ozon_get_info_df(args.raw, args.pa))

call_ozon_get_orders_df ==
    /\ UNCHANGED pipeVars
    /\ Shape("ozon_get_orders_df", ozon_get_orders_df(args.fbo, args.fbs, args.pa))

call_ozon_get_stocks_df ==
    /\ UNCHANGED pipeVars
    /\ Shape("ozon_get_stocks_df", ozon_get_stocks_df(args.raw, args.pa))

call_yandex_get_orders_df ==
    /\ UNCHANGED pipeVars
    /\ Shape("yandex_get_orders_df", yandex_get_orders_df(args.raw, args.pa))

call_yandex_get_info_df ==
    /\ UNCHANGED pipeVars
    /\ Shape("yandex_get_info_df", yandex_get_info_df(args.raw, args.pa))

call_yandex_get_stocks_df ==
    /\ UNCHANGED pipeVars
    /\ Shape("yandex_get_stocks_df", yandex_get_stocks_df(args.raw, args.pa))

call_yandex_get_warehouses_df ==
    /\ UNCHANGED pipeVars
    /\ Shape("yandex_get_warehouses_df", yandex_get_warehouses_df(args.raw, args.pa))

InitShaper ==
    /\ op \in Shapers
    /\ args \in ShaperArgs(op)
    /\ cursor = 0
    /\ requests = <<>>
    /\ responses = <<>>
    /\ results = <<>>
    /\ ret = Pending
    /\ conf = [m \in {"wb", "ozon", "yandex"} |-> 0]
    /\ pc = "idle"
    /\ fetch = <<>>
    /\ order = <<>>
    /\ gathered = {}
    /\ concat = <<>>
    /\ additional_data = <<>>
    /\ orders_data = <<>>
    /\ stocks_data = <<>>
    /\ sheets = <<>>
    /\ response = "pending"
    /\ error = "none"

NextShaper ==
    \/ call_wb_get_orders_df
    \/ call_wb_get_stocks_df
    \/ call_ozon_get_info_df
    \/ call_ozon_get_orders_df
    \/ call_ozon_get_stocks_df
    \/ call_yandex_get_orders_df
    \/ call_yandex_get_info_df
    \/ call_yandex_get_stocks_df
    \/ call_yandex_get_warehouses_df

SpecShaper == InitShaper /\ [][NextShaper]_vars

(***************************************************************************)
(* Properties of the client operations (checked under SpecClient).         *)
(***************************************************************************)
\* the records of the requests that were answered 200, in request order
SuccessfulRecords == Flatten([j \in 1..Len(responses) |-> Records(j, responses[j])])

SomeRequestFailed == \E j \in 1..Len(responses) : responses[j].kind # "ok"

\* C4 as stated: every client operation returns an empty list whenever an HTTP
\* call it makes fails (non-200, network error, unexpected exception), and
\* never raises.
C4_AnyFailureReturnsEmpty ==
    /\ ret.status # "raised"
    /\ (ret.status = "returned" /\ SomeRequestFailed) => ret.value = <<>>

\* C4 amended: no client operation ever raises on a failed HTTP call; a
\* single-request operation returns an empty list when its request fails; a
\* multi-request operation returns exactly the records of the requests that
\* succeeded (so an empty list when every request failed).
C4_FailuresAbsorbed ==
    /\ ret.status # "raised"
    /\ ret.status = "returned" =>
        /\ (op \in SingleOps /\ SomeRequestFailed) => ret.value = <<>>
        /\ ret.value = SuccessfulRecords
        /\ (\A j \in 1..Len(responses) : responses[j].kind # "ok") => ret.value = <<>>

\* a multi-request operation returned records although one of its requests failed
C4_Witness ==
    /\ op = "get_ozon_analytics_stocks"
    /\ ret.status = "returned"
    /\ \E j \in 1..Len(responses) : responses[j].kind = "exception"
    /\ ret.value # <<>>

\* C7: for since < to, get_ozon_posting_fbo_list issues exactly
\* ceil((to - since) / 1 day) requests, one per consecutive window of at most
\* one day, in chronological order, each window once; a failed window is
\* skipped and later windows are still requested; the result is the
\* concatenation of the successful windows' records in window order.
C7_FboDayChunking ==
    (op = "get_ozon_posting_fbo_list" /\ args.since < args.to) =>
        LET n == Len(requests)
            total == CeilDiv(args.to - args.since, TicksPerDay)
        IN
        /\ ret.status # "raised"
        /\ n <= total
        /\ \A j \in 1..n :
            /\ requests[j].since = args.since + (j - 1) * TicksPerDay
            /\ requests[j].to = Min(args.since + j * TicksPerDay, args.to)
            /\ requests[j].since < requests[j].to
            /\ requests[j].to - requests[j].since <= TicksPerDay
        /\ ret.status = "pending" => results = SuccessfulRecords
        /\ ret.status = "returned" =>
            /\ n = total
            /\ requests[n].to = args.to
            /\ ret.value = SuccessfulRecords

\* a range of two and a half days: the first window failed, the last (a half
\* day) was still requested and its records returned
C7_Witness ==
    /\ op = "get_ozon_posting_fbo_list"
    /\ ret.status = "returned"
    /\ (args.to - args.since) % TicksPerDay # 0
    /\ Len(requests) = 3
    /\ responses[1].kind # "ok"
    /\ responses[3].kind = "ok" /\ responses[3].n > 0
    /\ ret.value # <<>>

\* C8: for a SKU list of length L, get_ozon_analytics_stocks issues exactly
\* ceil(L / 100) requests (none when L = 0), each with at most 100 keys, the
\* batches being consecutive slices covering the list once in input order; a
\* failed batch is skipped, not retried, later batches are still requested;
\* the result is the concatenation of the successful batches' items.
C8_StockBatches ==
    op = "get_ozon_analytics_stocks" =>
        LET n == Len(requests)
            L == Len(args.skus)
        IN
        /\ ret.status # "raised"
        /\ n <= CeilDiv(L, chunk_size)
        /\ \A j \in 1..n :
            /\ Len(requests[j].skus) \in 1..chunk_size
            /\ requests[j].skus =
                 SubSeq(args.skus, (j - 1) * chunk_size + 1, Min(j * chunk_size, L))
        /\ ret.status = "returned" =>
            /\ n = CeilDiv(L, chunk_size)
            /\ Flatten([j \in 1..n |-> requests[j].skus]) = args.skus
            /\ ret.value = SuccessfulRecords

\* 201 keys: three batches (100, 100, 1); the second failed, the third ran
C8_Witness ==
    /\ op = "get_ozon_analytics_stocks"
    /\ ret.status = "returned"
    /\ Len(args.skus) = 2 * chunk_size + 1
    /\ Len(requests) = 3
    /\ responses[2].kind # "ok"
    /\ responses[3].kind = "ok" /\ responses[3].n > 0
    /\ Len(requests[3].skus) = 1

\* the response carried a nextPageToken
CarriedToken(answer) == answer.kind = "ok" /\ answer.next # NoToken

\* C9: a cursor-paginated Yandex fetch requests the next page exactly when the
\* previous response carried a nextPageToken, passing that token; it stops as
\* soon as a response omits the token, even if earlier pages carried one; when
\* all pages succeed the result is the pages' records in page order.
C9_CursorPagination ==
    op \in PagedOps =>
        LET n == Len(requests) IN
        /\ n >= 1 => requests[1].page_token = NoToken
        /\ \A j \in 2..n :
            /\ CarriedToken(responses[j - 1])
            /\ requests[j].page_token = responses[j - 1].next
        /\ (n >= 1 /\ ~CarriedToken(responses[n])) => ret.status = "returned"
        /\ (n >= 1 /\ CarriedToken(responses[n])) =>
            /\ ret.status = "pending"
            /\ cursor = responses[n].next
        /\ (ret.status = "returned" /\ \A j \in 1..n : responses[j].kind = "ok") =>
            ret.value = Flatten([j \in 1..n |-> Records(j, responses[j])])

\* three pages, the first two carrying a token, the third none: the fetch
\* stopped there and returned page 1's record before page 3's
C9_Witness ==
    /\ op = "get_yandex_orders"
    /\ ret.status = "returned"
    /\ Len(requests) = 3
    /\ CarriedToken(responses[1]) /\ CarriedToken(responses[2])
    /\ responses[3].kind = "ok" /\ responses[3].next = NoToken
    /\ responses[1].n > 0 /\ responses[3].n > 0
    /\ ret.value = <<[req |-> 1, k |-> 1]>> \o Records(2, responses[2])
                     \o <<[req |-> 3, k |-> 1]>>

\* page j was answered with a non-200 status or an exception
PageFailed(j) == responses[j].kind # "ok"

\* C20: when page k (k > 1) of a cursor-paginated Yandex fetch fails (non-200
\* status or exception), the fetch requests no further page and returns the
\* records of pages 1..k-1 in page order, not an empty list; a failed page is
\* not requested again, each request being for the page after the last one
\* answered.
C20_FailedPageKeepsEarlierPages ==
    op \in PagedOps =>
        LET n == Len(requests) IN
        /\ Len(responses) = n
        /\ \A k \in 1..n : PageFailed(k) =>
            /\ k = n
            /\ ret.status = "returned"
            /\ ret.value = Flatten([j \in 1..(k - 1) |-> Records(j, responses[j])])
            /\ (k > 1 /\ \E j \in 1..(k - 1) : responses[j].n > 0) => ret.value # <<>>
        /\ \A j \in 2..n :
            /\ ~PageFailed(j - 1)
            /\ requests[j].page_token = responses[j - 1].next

\* page 3 failed with an exception after two pages of one record each: the fetch
\* returned page 1's record followed by page 2's
C20_Witness ==
    /\ op = "get_yandex_offer_mappings"
    /\ ret.status = "returned"
    /\ Len(requests) = 3
    /\ responses[1].kind = "ok" /\ responses[1].n = 1
    /\ responses[2].kind = "ok" /\ responses[2].n = 1
    /\ responses[3].kind = "exception"
    /\ ret.value = <<[req |-> 1, k |-> 1], [req |-> 2, k |-> 1]>>

(***************************************************************************)
(* Properties of a run of the pipeline (checked under Spec).               *)
(***************************************************************************)
Rank(r) == CHOOSE i \in 1..Len(Gathers) : Gathers[i] = r

\* the gather of r returned and the code after it ran without raising
Passed(r) ==
    /\ r \in gathered
    /\ error = "none" \/ \E later \in gathered : Rank(later) > Rank(r)

Rows(df) == {df.rows[i] : i \in 1..Len(df.rows)}

\* C1 as stated: every left join of a concatenated order or stock table with
\* its mapping table (Ozon on sku, Yandex on offerId) yields exactly as many
\* rows as the left table, also when several accounts' mapping rows share a
\* key; unmatched rows keep a null barcode and are never dropped.
C1_LeftJoinKeepsRowCount ==
    /\ Passed("ozon_orders") =>
         Len(orders_data.ozon_orders.rows) = Len(concat["ozon_orders"].rows)
    /\ Passed("yandex_orders") =>
         Len(orders_data.yandex_orders.rows) = Len(concat["yandex_orders"].rows)
    /\ Passed("ozon_stocks") =>
         Len(stocks_data.ozon_stocks.rows) = Len(concat["ozon_stocks"].rows)
    /\ Passed("yandex_stocks") =>
         Len(stocks_data.yandex_stocks.rows) =
            Len(WhereIsIn(concat["yandex_stocks"], "warehouseId",
                          Unique(additional_data.yandex_warehouses, "warehouseId")).rows)

\* C2 as stated: with an empty account list for one marketplace the run still
\* completes without raising, and that marketplace's tables are empty.
C2_EmptyConfigurationCompletes ==
    (pc = "done" /\ \E m \in Marketplaces : conf[m] = 0) =>
        /\ response = "xlsx"
        /\ error = "none"

\* every upstream call made for marketplace m in this run failed
AllCallsFailed(m) ==
    /\ \E r \in Resources : MarketOf(r) = m /\ \E a \in DOMAIN fetch[r] : Finished(fetch[r][a])
    /\ \A r \in Resources : MarketOf(r) = m =>
          \A a \in DOMAIN fetch[r] : Finished(fetch[r][a]) => fetch[r][a] = "failed"

\* C3 as stated: when every upstream call of one marketplace fails, no
\* exception escapes the aggregator and download_report returns the workbook,
\* not the error text.
C3_MarketplaceFailureAbsorbed ==
    (/\ pc = "done"
     /\ \A m \in Marketplaces : conf[m] >= 1
     /\ \E m \in Marketplaces : AllCallsFailed(m)) =>
        /\ response = "xlsx"
        /\ error = "none"

\* the rows of a table that carry the account label pa
RowsOfAccount(df, pa) == SelectSeq(df.rows, LAMBDA row : row["PA"] = pa)

\* C5: within one gather fan-out a failed fetch gives an empty table for its
\* account only; every sibling fetch finishes and its rows are in the
\* concatenated result; the gather returns only when all fetches finished.
C5_GatherIsolatesFailures ==
    \A r \in gathered :
        \A a \in Accounts(r) :
            LET result == Result(r, a) IN
            /\ Finished(fetch[r][a])
            /\ fetch[r][a] = "failed" => result = EmptyDF
            /\ (fetch[r][a] = "ok" /\ r # "ozon_stocks") => result.rows # <<>>
            /\ RowsOfAccount(concat[r], PA(MarketOf(r), a)) =
                  [i \in 1..Len(result.rows) |-> Pad(result.rows[i], concat[r].cols)]

\* two Yandex accounts: the first one's order fetch failed, the second one's
\* rows are the whole concatenated table
C5_Witness ==
    /\ "yandex_orders" \in gathered
    /\ conf["yandex"] = 2
    /\ fetch["yandex_orders"][1] = "failed"
    /\ fetch["yandex_orders"][2] = "ok"
    /\ Len(concat["yandex_orders"].rows) = 2
    /\ \A row \in Rows(concat["yandex_orders"]) : row["PA"] = PA("yandex", 2)

\* the warehouse ids of the warehouse lists fetched in this run
WarehousesFetched ==
    UNION {{YandexWarehouses(a)[i].id : i \in 1..Len(YandexWarehouses(a))} :
              a \in {b \in DOMAIN fetch["yandex_warehouses"] :
                        fetch["yandex_warehouses"][b] = "ok"}}

\* C6: in a completed run every row of the exported Yandex stock table has a
\* warehouseId of the warehouse table fetched in the same run, and every
\* fetched stock row with such a warehouseId is kept.
C6_YandexStocksWithinWarehouses ==
    response = "xlsx" =>
        /\ Unique(additional_data.yandex_warehouses, "warehouseId") = WarehousesFetched
        /\ \A row \in Rows(stocks_data.yandex_stocks) :
              row["warehouseId"] \in WarehousesFetched
        /\ \A fetched \in Rows(concat["yandex_stocks"]) :
              fetched["warehouseId"] \in WarehousesFetched =>
                  \E row \in Rows(stocks_data.yandex_stocks) :
                      \A c \in concat["yandex_stocks"].cols : row[c] = fetched[c]

\* a completed run that fetched stock in warehouses 1 and 3 while the
\* warehouse list named 1 and 2: only warehouse 1's rows were exported
C6_Witness ==
    /\ response = "xlsx"
    /\ WarehousesFetched = {1, 2}
    /\ \E fetched \in Rows(concat["yandex_stocks"]) : fetched["warehouseId"] = 3
    /\ stocks_data.yandex_stocks.rows # <<>>
    /\ \A row \in Rows(stocks_data.yandex_stocks) : row["warehouseId"] = 1

\* what get_additional_data makes of this run's info and warehouse fetches
AdditionalDataOfRun ==
    [ozon_attributes_info |->
        Select(DropDuplicates(Concat(GatherResults("ozon_info"))), {"barcode", "sku"}),
     yandex_attributes_info |->
        Select(DropDuplicates(Concat(GatherResults("yandex_info"))), {"offerId", "barcode"}),
     yandex_warehouses |-> DropDuplicates(Concat(GatherResults("yandex_warehouses")))]

OrderOrStockFetchIssued ==
    \E r \in Resources \ AdditionalResources :
        \E a \in DOMAIN fetch[r] : fetch[r][a] # "idle"

\* C10: no order or stock fetch is issued before every fetch of the
\* additional-data stage has completed, and the mapping, SKU and warehouse
\* tables get_orders and get_stocks use are those of this run's
\* get_additional_data.
C10_AdditionalDataFirst ==
    OrderOrStockFetchIssued =>
        LET of_run == AdditionalDataOfRun IN
        /\ \A r \in AdditionalResources :
              r \in gathered /\ \A a \in DOMAIN fetch[r] : Finished(fetch[r][a])
        /\ additional_data = of_run
        /\ Passed("ozon_orders") =>
             orders_data.ozon_orders =
                Merge(concat["ozon_orders"], of_run.ozon_attributes_info, "sku")
        /\ Passed("yandex_orders") =>
             orders_data.yandex_orders =
                Merge(concat["yandex_orders"], of_run.yandex_attributes_info, "offerId")
        /\ (\E a \in DOMAIN fetch["ozon_stocks"] : fetch["ozon_stocks"][a] # "idle") =>
             ozon_skus = [i \in 1..Len(of_run.ozon_attributes_info.rows) |->
                            AsStr(of_run.ozon_attributes_info.rows[i]["sku"])]
        /\ Passed("ozon_stocks") =>
             stocks_data.ozon_stocks =
                Merge(concat["ozon_stocks"], of_run.ozon_attributes_info, "sku")
        /\ Passed("yandex_stocks") =>
             stocks_data.yandex_stocks =
                WhereIsIn(Merge(concat["yandex_stocks"], of_run.yandex_attributes_info,
                                "offerId"),
                          "warehouseId", Unique(of_run.yandex_warehouses, "warehouseId"))

\* the Ozon stock fetches are running, after the Ozon orders were joined with
\* the mapping table this run's get_additional_data returned
C10_Witness ==
    /\ pc = "ozon_stocks"
    /\ \E a \in DOMAIN fetch["ozon_stocks"] : fetch["ozon_stocks"][a] = "running"
    /\ Passed("ozon_orders")
    /\ additional_data.ozon_attributes_info.rows # <<>>
    /\ \E row \in Rows(orders_data.ozon_orders) : row["barcode"] = 101

\* the rows of the accounts' tables, account after account in the order of
\* the configuration list, each padded to the columns of the whole
InConfigurationOrder(r, cols) ==
    Flatten([a \in 1..Len(fetch[r]) |->
        LET result == Result(r, a) IN
        [i \in 1..Len(result.rows) |-> Pad(result.rows[i], cols)]])

\* C11: whatever the order in which the concurrent per-account fetches of a
\* gather complete, the concatenated table holds the accounts' rows in
\* configuration order, each account's rows in the order its shaper made them.
C11_ConcatInConfigurationOrder ==
    \A r \in gathered :
        Accounts(r) # {} => concat[r].rows = InConfigurationOrder(r, concat[r].cols)

\* a finished run with two Yandex accounts whose stock fetches completed
\* second account first; the first account's rows still come first
C11_Witness ==
    /\ pc = "done"
    /\ response = "xlsx"
    /\ conf["yandex"] = 2
    /\ order = <<2, 1>>
    /\ fetch["yandex_stocks"] = <<"ok", "ok">>
    /\ Len(concat["yandex_stocks"].rows) = 6
    /\ concat["yandex_stocks"].rows[1]["PA"] = PA("yandex", 1)
    /\ concat["yandex_stocks"].rows[6]["PA"] = PA("yandex", 2)

\* C12: download_report lets no exception propagate.  When generate_excel_file
\* returns, the reply is the workbook with the attachment file name and the
\* xlsx MIME type; when it raises, the reply is the fixed error text, without
\* workbook bytes and with the same status code as a success.
C12_DownloadReportCatchesAll ==
    /\ pc # "done" => response = "pending"
    /\ pc = "done" =>
        /\ response \in {"xlsx", "error_text"}
        /\ (error = "none") <=> (response = "xlsx")
        /\ error = "none" =>
            /\ gathered = Resources
            /\ HttpReply.content = Workbook(orders_data, stocks_data)
            /\ HttpReply.headers.ContentDisposition =
                  "attachment; filename=orders_and_stocks.xlsx"
            /\ HttpReply.headers.ContentType =
                  "application/vnd.openxmlformats-officedocument.spreadsheetml.sheet"
        /\ error # "none" =>
            /\ HttpReply.content = ErrorText
            /\ sheets = <<>>
        /\ HttpReply.status_code = 200

\* a run in which the Ozon orders join raised KeyError after the WB orders
\* were fetched: the reply is the error text
C12_Witness ==
    /\ pc = "done"
    /\ error = "KeyError"
    /\ "ozon_orders" \in gathered
    /\ orders_data.wb_orders.rows # <<>>
    /\ response = "error_text"
    /\ HttpReply.content = ErrorText

SheetNames ==
    <<"WB_orders", "OZON_orders", "YANDEX_orders", "WB_stocks", "OZON_stocks", "YANDEX_stocks">>

\* C13: every successful run writes exactly six sheets, in the order
\* WB_orders, OZON_orders, YANDEX_orders, WB_stocks, OZON_stocks,
\* YANDEX_stocks, each holding the table get_orders / get_stocks returned for
\* it, empty tables included.
C13_SixSheetsInOrder ==
    response = "xlsx" =>
        /\ Len(sheets) = 6
        /\ \A i \in 1..6 : sheets[i].sheet_name = SheetNames[i]
        /\ sheets[1].table = orders_data.wb_orders
        /\ sheets[2].table = orders_data.ozon_orders
        /\ sheets[3].table = orders_data.yandex_orders
        /\ sheets[4].table = stocks_data.wb_stocks
        /\ sheets[5].table = stocks_data.ozon_stocks
        /\ sheets[6].table = stocks_data.yandex_stocks

\* a successful run whose WB orders fetch failed: the WB orders sheet is
\* there and empty, the others hold rows
C13_Witness ==
    /\ response = "xlsx"
    /\ orders_data.wb_orders = EmptyDF
    /\ Len(sheets) = 6
    /\ sheets[1].table = EmptyDF
    /\ sheets[2].table.rows # <<>>
    /\ sheets[6].table.rows # <<>>

\* the six sheets as a function of the configuration and of what each
\* upstream call answered, and of nothing else: the pipeline without its
\* scheduling
ReportOf(c, outcomes) ==
    LET tables(r, sku_list) ==
            Concat([a \in 1..c[MarketOf(r)] |-> TableOf(r, a, outcomes[r][a], sku_list)])
        ozon_info == Select(DropDuplicates(tables("ozon_info", <<>>)), {"barcode", "sku"})
        yandex_info ==
            Select(DropDuplicates(tables("yandex_info", <<>>)), {"offerId", "barcode"})
        warehouses == DropDuplicates(tables("yandex_warehouses", <<>>))
        sku_list == [i \in 1..Len(ozon_info.rows) |-> AsStr(ozon_info.rows[i]["sku"])]
    IN Workbook(
        [wb_orders |-> tables("wb_orders", <<>>),
         ozon_orders |-> Merge(tables("ozon_orders", <<>>), ozon_info, "sku"),
         yandex_orders |-> Merge(tables("yandex_orders", <<>>), yandex_info, "offerId")],
        [wb_stocks |-> tables("wb_stocks", <<>>),
         ozon_stocks |-> Merge(tables("ozon_stocks", sku_list), ozon_info, "sku"),
         yandex_stocks |->
            WhereIsIn(Merge(tables("yandex_stocks", <<>>), yandex_info, "offerId"),
                      "warehouseId", Unique(warehouses, "warehouseId"))])

\* C14: the six tables of a successful run are determined by the upstream's
\* answers alone; runs that get the same answers write the same sheets,
\* however their concurrent fetches interleave and complete.
C14_ReportDeterminedByResponses ==
    response = "xlsx" => sheets = ReportOf(conf, fetch)

\* a successful run with two Yandex accounts, every fetch answered, whose
\* last gather completed second account first
C14_Witness ==
    /\ response = "xlsx"
    /\ conf = [wb |-> 1, ozon |-> 1, yandex |-> 2]
    /\ order = <<2, 1>>
    /\ \A r \in Resources : \A a \in DOMAIN fetch[r] : fetch[r][a] = "ok"
    /\ sheets = ReportOf(conf, fetch)
    /\ \A i \in 1..6 : sheets[i].table.rows # <<>>

\* the gather whose tables sheet i is made of
SheetSource ==
    <<"wb_orders", "ozon_orders", "yandex_orders", "wb_stocks", "ozon_stocks", "yandex_stocks">>

\* row is labelled with the PA of account a of r and is one of the rows the
\* shaper returned for that account (made), possibly widened by
\* concatenation and join
ProducedBy(row, r, a, made) ==
    /\ row["PA"] = PA(MarketOf(r), a)
    /\ \E shaped \in made : \A c \in DOMAIN shaped : row[c] = shaped[c]

\* C15: every row of a table a shaper returns carries the PA label of the
\* account the shaper was called for, and every row of the six exported
\* tables carries a non-null PA, the label of the account whose fetch
\* produced the row, after concatenation, joins and the warehouse filter.
C15_RowsCarryAccountLabel ==
    LET made == [r \in Resources |-> [a \in DOMAIN fetch[r] |-> Rows(Result(r, a))]] IN
    /\ \A r \in Resources : \A a \in DOMAIN fetch[r] :
          \A row \in made[r][a] :
              "PA" \in DOMAIN row /\ row["PA"] = PA(MarketOf(r), a)
    /\ response = "xlsx" =>
          \A i \in 1..Len(sheets) : \A row \in Rows(sheets[i].table) :
              /\ "PA" \in DOMAIN row
              /\ row["PA"] # Null
              /\ \E a \in DOMAIN fetch[SheetSource[i]] :
                    ProducedBy(row, SheetSource[i], a, made[SheetSource[i]][a])

\* a successful run with two Ozon accounts: the Ozon orders sheet holds joined
\* rows of both, one of them without a match in the mapping
C15_Witness ==
    /\ response = "xlsx"
    /\ conf["ozon"] = 2
    /\ \E row \in Rows(sheets[2].table) : row["PA"] = PA("ozon", 1) /\ row["barcode"] = Null
    /\ \E row \in Rows(sheets[2].table) : row["PA"] = PA("ozon", 2) /\ row["barcode"] = 101
    /\ \E row \in Rows(sheets[6].table) : row["PA"] = PA("yandex", 1)

\* the gathers of get_additional_data, of get_orders and of get_stocks
Stages ==
    {AdditionalResources,
     {"wb_orders", "ozon_orders", "yandex_orders"},
     {"wb_stocks", "ozon_stocks", "yandex_stocks"}}

Launched(r) == \E a \in DOMAIN fetch[r] : fetch[r][a] # "idle"

\* C16 as stated: the per-account fetches of all marketplaces of a stage are
\* launched together; once one fetch of a stage has been launched, no fetch
\* of another marketplace or resource of that stage is still waiting to be.
C16_StageLaunchedTogether ==
    \A stage \in Stages : \A r \in stage :
        Launched(r) =>
            \A other \in stage : \A a \in DOMAIN fetch[other] : fetch[other][a] # "idle"

(***************************************************************************)
(* Properties of the shapers (checked under SpecShaper).                   *)
(***************************************************************************)
\* the (parent record, line item) pairs of a raw list, record after record,
\* within a record item after item
LineItems(records, key) ==
    Flatten([i \in 1..Len(records) |->
        LET items == Get(records[i], key, <<>>) IN
        [k \in 1..Len(items) |-> [parent |-> records[i], item |-> items[k]]]])

\* C17: the Ozon and Yandex order shapers explode line items: a posting or
\* order with N line items (N >= 0) gives exactly N rows, each with the
\* parent's order id and timestamp and the item's own fields, so the table has
\* as many rows as the raw records have line items, in record-then-item order.
C17_LineItemsExploded ==
    ret.status = "returned" =>
        /\ op = "ozon_get_orders_df" =>
            LET fbo == LineItems(args.fbo, "products")
                fbs == LineItems(args.fbs, "products")
                rows == ret.value.rows
            IN /\ Len(rows) = Len(fbo) + Len(fbs)
               /\ \A j \in 1..Len(fbo) :
                    /\ rows[j]["order_id"] = Get(fbo[j].parent, "order_id", Null)
                    /\ rows[j]["created_at"] = Get(fbo[j].parent, "created_at", EmptyStr)
                    /\ rows[j]["sku"] = Get(fbo[j].item, "sku", Null)
                    /\ rows[j]["quantity"] = Get(fbo[j].item, "quantity", Null)
               /\ \A j \in 1..Len(fbs) :
                    LET row == rows[Len(fbo) + j] IN
                    /\ row["order_id"] = Get(fbs[j].parent, "order_id", Null)
                    /\ row["created_at"] = Get(fbs[j].parent, "in_process_at", EmptyStr)
                    /\ row["sku"] = Get(fbs[j].item, "sku", Null)
                    /\ row["quantity"] = Get(fbs[j].item, "quantity", Null)
        /\ op = "yandex_get_orders_df" =>
            LET items == LineItems(args.raw, "items")
                rows == ret.value.rows
            IN /\ Len(rows) = Len(items)
               /\ \A j \in 1..Len(items) :
                    /\ rows[j]["order_id"] = Get(items[j].parent, "id", Null)
                    /\ rows[j]["creationDate"] = Get(items[j].parent, "creationDate", EmptyStr)
                    /\ rows[j]["item_id"] = Get(items[j].item, "id", Null)
                    /\ rows[j]["offerId"] = Get(items[j].item, "offerId", EmptyStr)
                    /\ rows[j]["count"] = Get(items[j].item, "count", Null)

\* FBO postings with two products and with none and an FBS posting with one:
\* three rows, the FBS row last
C17_Witness ==
    /\ op = "ozon_get_orders_df"
    /\ ret.status = "returned"
    /\ Len(args.fbo) = 2
    /\ Len(Get(args.fbo[1], "products", <<>>)) = 2
    /\ "products" \in DOMAIN args.fbo[2] /\ args.fbo[2].products = <<>>
    /\ Len(args.fbs) = 1
    /\ Len(args.fbs[1].products) = 1
    /\ Len(ret.value.rows) = 3
    /\ ret.value.rows[2]["order_id"] = Get(args.fbo[1], "order_id", Null)
    /\ ret.value.rows[2]["order_id"] # Null
    /\ ret.value.rows[3]["order_id"] = args.fbs[1].order_id

\* the fields a record-to-row shaper maps: <<raw key, column, fallback>>
FieldMap(shaper) ==
    CASE shaper = "ozon_get_info_df" ->
            {<<"barcode", "barcode", EmptyStr>>, <<"offer_id", "offer_id", EmptyStr>>,
             <<"sku", "sku", Null>>, <<"id", "product_id", Null>>}
      [] shaper = "ozon_get_stocks_df" ->
            {<<"name", "name", EmptyStr>>, <<"offer_id", "offer_id", EmptyStr>>,
             <<"sku", "sku", Null>>,
             <<"available_stock_count", "available_stock_count", Null>>,
             <<"warehouse_id", "warehouse_id", Null>>,
             <<"warehouse_name", "warehouse_name", Null>>,
             <<"cluster_id", "cluster_id", Null>>}
      [] shaper = "yandex_get_warehouses_df" ->
            {<<"id", "warehouseId", Null>>, <<"name", "name", EmptyStr>>}
      [] shaper \in {"wb_get_orders_df", "wb_get_stocks_df"} ->
            {<<f, f, Null>> : f \in DOMAIN FullRecord(shaper, 1)}
      [] OTHER -> {}

\* the i-th row holds every mapped field of the i-th record, or its fallback
\* (a WB column no record has is left out of the table, a cell pandas cannot
\* read as a number is null)
RowOfRecord(shaper, row, rec) ==
    \A m \in FieldMap(shaper) :
        IF shaper \in {"wb_get_orders_df", "wb_get_stocks_df"}
        THEN Get(row, m[2], Null) = ToNumeric(Get(rec, m[1], Null))
        ELSE row[m[2]] = Get(rec, m[1], m[3])

\* C18 as stated: in every shaper a raw record that lacks a mapped field
\* still gives its row(s), with the field at its fallback; a missing field
\* never removes that record's row nor the rows of the other records of the
\* account, in particular not a Yandex offer mapping without barcodes.
C18_MissingFieldFallsBack ==
    ret.status = "returned" =>
        LET rows == ret.value.rows IN
        /\ FieldMap(op) # {} =>
            /\ Len(rows) = Len(args.raw)
            /\ \A i \in 1..Len(rows) : RowOfRecord(op, rows[i], args.raw[i])
        /\ op = "yandex_get_info_df" =>
            /\ Len(rows) = Len(args.raw)
            /\ \A i \in 1..Len(rows) :
                LET offer == Get(args.raw[i], "offer", <<>>)
                    barcodes == Get(offer, "barcodes", <<>>)
                IN /\ rows[i]["offerId"] = Get(offer, "offerId", EmptyStr)
                   /\ rows[i]["name"] = Get(offer, "name", EmptyStr)
                   /\ rows[i]["barcode"] =
                        IF barcodes = <<>> THEN Null ELSE barcodes[1]
        /\ op = "yandex_get_orders_df" => Len(rows) = Len(LineItems(args.raw, "items"))
        /\ op = "ozon_get_orders_df" =>
            Len(rows) = Len(LineItems(args.fbo, "products"))
                        + Len(LineItems(args.fbs, "products"))
        /\ op = "yandex_get_stocks_df" =>
            LET offers == LineItems(args.raw, "offers")
                levels == LineItems([k \in 1..Len(offers) |-> offers[k].item], "stocks")
            IN /\ Len(rows) = Len(levels)
               /\ \A j \in 1..Len(rows) :
                    /\ rows[j]["offerId"] = Get(levels[j].parent, "offerId", EmptyStr)
                    /\ rows[j]["count"] = Get(levels[j].item, "count", Null)

\* C19: in get_stocks every Ozon account's stock fetch is called with the
\* same SKU list, the sku column (one entry per row, in row order) of the
\* Ozon mapping table this run's get_additional_data produced: the SKUs of
\* all Ozon accounts together.  An empty list gives no rows.
C19_OzonStockSkuList ==
    /\ Launched("ozon_stocks") =>
        LET mapping == AdditionalDataOfRun.ozon_attributes_info
            all_ozon_skus == UNION {Unique(Result("ozon_info", b), "sku") :
                                        b \in DOMAIN fetch["ozon_info"]}
        IN
        \A a \in DOMAIN fetch["ozon_stocks"] :
            /\ a \in DOMAIN args.skus
            /\ Len(args.skus[a]) = Len(mapping.rows)
            /\ \A i \in 1..Len(mapping.rows) :
                  args.skus[a][i] = AsStr(mapping.rows[i]["sku"])
            /\ all_ozon_skus \subseteq
                  {ParseSku(args.skus[a][i]) : i \in 1..Len(args.skus[a])}
    /\ \A a \in DOMAIN fetch["ozon_stocks"] :
          TableOf("ozon_stocks", a, "ok", <<>>) = EmptyDF

\* two Ozon accounts: the stock fetch of the first was called with the list
\* that also names the second account's own SKU 12, and has returned rows
C19_Witness ==
    /\ conf["ozon"] = 2
    /\ fetch["ozon_info"] = <<"ok", "ok">>
    /\ fetch["ozon_stocks"][1] = "ok"
    /\ args.skus[1] = args.skus[2]
    /\ Len(args.skus[1]) = 4
    /\ \E i \in 1..4 : ParseSku(args.skus[1][i]) = 12
    /\ Result("ozon_stocks", 1).rows # <<>>

====
